---------------------------- MODULE Spec2Model ----------------------------
(***************************************************************************)
(* Model of the attestation server of lat-long-tracking (api/server.js):   *)
(* challenge issuance and consumption, the precondition gate, signature    *)
(* verification and the check-in / check-out handlers over the three       *)
(* PostgreSQL tables (visits, server_challenges, visit_events).            *)
(*                                                                         *)
(* Atomicity.  Every `await pool.query(...)` is one action: the statement  *)
(* executes in the database and the handler's synchronous continuation     *)
(* runs up to the next await (or to the response).  Between two awaits of  *)
(* one request any step of any other request may happen.                   *)
(*                                                                         *)
(* Request bodies.  A body is fixed when the request arrives.  req[r].body *)
(* holds a field from the step in which the handler first uses it; until   *)
(* then the field keeps its NoBody value, and the action that first uses   *)
(* it draws it from the values EventSchema admits.  A field's value does   *)
(* not depend on the server's state, so the runs are those of bodies drawn *)
(* whole on arrival.                                                       *)
(*                                                                         *)
(* Text.  A string is a sequence of symbols; a vendor name is spelled      *)
(* character by character, every other text field is one symbol.           *)
(***************************************************************************)
EXTENDS Integers, Sequences, FiniteSets, TLC

(* ------------------------------ bounds -------------------------------- *)

\* challenges ever issued
MaxChallenges == 2
\* clock steps taken
MaxTicks == 1
\* seconds per clock step
TickSeconds == 121
\* visit ids available to crypto.randomUUID()
MaxVisits == 2
\* rows of visit_events
MaxEvents == 4

(* ----------------------- configuration (server.js) -------------------- *)

CHALLENGE_TTL_SECONDS == 120
ACCURACY_THRESHOLD_METERS == 5

(* ----------------------- configuration (App.jsx) ---------------------- *)

ACCURACY_THRESHOLD == 50

\* SQL NULL of the nullable column used_at
NULL == -1

(* ------------------------------ inputs -------------------------------- *)

\* the request handlers that may run concurrently
Reqs == { 1, 2 }
ChallengeIds == 1..MaxChallenges
VisitIds == 1..MaxVisits

\* vendor names a client may submit
Vendors == { <<"A">>, <<"a">> }
\* vendor names with and without surrounding whitespace
TrimVendors == { <<"a">>, <<"a", " ">> }
\* a vendor name no visit carries
OtherVendors == { <<"b">> }
\* the vendor name used where the clock advances
ClockVendors == { <<"a">> }
Latitudes == { 37, 91 }
Accuracies == { 5, 6 }
\* a photo reference is a path, one symbol per segment
PhotoUrls == { <<"/uploads/", "a", ".", "jpg">>, <<"/tmp/", "a", ".", "jpg">> }
\* file names POST /api/photos may write
PhotoFiles == { <<"a", ".", "jpg">> }
\* the photo whose digest clients submit
Contents == { "c1" }
\* the photos a client may upload under one file name, one after the other
LaterContents == { "c1", "c2" }
\* the device keys that parse as SPKI public keys
Keys == { "k1", "k2" }
\* what a client may submit as its public key
SubmittedKeys == { "k1" }

(* ------------------------------- text --------------------------------- *)

\* String.prototype.toLowerCase / SQL LOWER, symbol by symbol
LowerChar(c) == IF c = "A" THEN "a" ELSE IF c = "B" THEN "b" ELSE c

Lower(s) == [i \in DOMAIN s |-> LowerChar(s[i])]

IsSpace(c) == c = " "

RECURSIVE TrimLeft(_)
TrimLeft(s) == IF s # <<>> /\ IsSpace(Head(s)) THEN TrimLeft(Tail(s)) ELSE s

RECURSIVE TrimRight(_)
TrimRight(s) ==
    IF s # <<>> /\ IsSpace(s[Len(s)]) THEN TrimRight(SubSeq(s, 1, Len(s) - 1)) ELSE s

\* String.prototype.trim
Trim(s) == TrimRight(TrimLeft(s))

\* String(number)
Str(n) == <<ToString(n)>>

\* the elements of parts from the i-th on, with sep between them
RECURSIVE JoinFrom(_, _, _)
JoinFrom(parts, sep, i) ==
    IF i > Len(parts) THEN <<>>
    ELSE IF i = Len(parts) THEN parts[i]
    ELSE parts[i] \o <<sep>> \o JoinFrom(parts, sep, i + 1)

\* Array.prototype.join (the array is evaluated once, then joined)
Join(parts, sep) == CHOOSE s \in { JoinFrom(p, sep, 1) : p \in { parts } } : TRUE

\* crypto.randomBytes(24).toString("base64url"): one distinct token per challenge
NonceOf(id) == <<"n" \o ToString(id)>>

Nonces == { NonceOf(id) : id \in ChallengeIds }

\* sha256Hex: content -> digest
sha256Hex(buf) == <<"sha-" \o buf>>

Digests == { sha256Hex(c) : c \in Contents }

(* ---------------------------- signatures ------------------------------ *)

\* what a device holding private key k produces over msg
Sign(k, msg) == [key |-> k, msg |-> msg]

\* signature material that does not parse
Malformed == [key |-> "none", msg |-> <<>>]

\* variant: a payload that leaves the photo digest out
buildSigningPayloadNoDigest(p) ==
    Join(<< p.challengeNonce,
            <<p.eventType>>,
            p.vendorName,
            Str(p.latitude),
            Str(p.longitude),
            Str(p.accuracyMeters),
            <<p.capturedAt>> >>, "|")

buildSigningPayload(p) ==
    Join(<< p.challengeNonce,
            <<p.eventType>>,
            p.vendorName,
            Str(p.latitude),
            Str(p.longitude),
            Str(p.accuracyMeters),
            <<p.capturedAt>>,
            p.photoSha256 >>, "|")

\* the fields buildSigningPayload joins
SignedFields ==
    { "challengeNonce", "eventType", "vendorName", "latitude", "longitude",
      "accuracyMeters", "capturedAt", "photoSha256" }

\* variant: a signature check that looks at the key only
verifySignatureKeyOnly(devicePublicKey, signature, payloadString) ==
    /\ devicePublicKey \in Keys
    /\ signature # Malformed
    /\ signature.key = devicePublicKey

verifySignature(devicePublicKey, signature, payloadString) ==
    /\ devicePublicKey \in Keys
    /\ signature # Malformed
    /\ signature.key = devicePublicKey
    /\ signature.msg = payloadString

(* ---------------------- client (web/src/App.jsx) ---------------------- *)

\* checkIn / checkOut: the payload the device signs
clientPayload(nonce, eventType, vendorName, pos, capturedAt, photoSha) ==
    Join(<< nonce,
            <<eventType>>,
            vendorName,
            Str(pos.lat),
            Str(pos.lng),
            Str(pos.accuracy),
            <<capturedAt>>,
            photoSha >>, "|")

\* how what the device signed relates to the body it submits: every field as
\* submitted ("exact"), one signed field different, another device's key, a public
\* key or a signature that does not parse
Signings == { "exact", "otherKey", "badKey", "malformed" } \cup SignedFields

\* the fields the device signed, where they differ from the submitted body b in field f;
\* for the vendor name: the name as typed, with a trailing blank the client trims
\* from the body it sends
SignedBy(b, f) ==
    CASE f = "challengeNonce" -> [b EXCEPT !.challengeNonce = <<"n0">>]
      [] f = "eventType" ->
            [b EXCEPT !.eventType = IF @ = "CHECK_IN" THEN "CHECK_OUT" ELSE "CHECK_IN"]
      [] f = "vendorName" -> [b EXCEPT !.vendorName = @ \o <<" ">>]
      [] f = "latitude" -> [b EXCEPT !.latitude = @ + 1]
      [] f = "longitude" -> [b EXCEPT !.longitude = @ + 1]
      [] f = "accuracyMeters" -> [b EXCEPT !.accuracyMeters = @ + 1]
      [] f = "capturedAt" -> [b EXCEPT !.capturedAt = "2024-01-01T00:00:01Z"]
      [] f = "photoSha256" -> [b EXCEPT !.photoSha256 = <<"sha-c0">>]
      [] OTHER -> b

\* the client's payload over the fields p
PayloadSigned(p) ==
    clientPayload(p.challengeNonce, p.eventType, p.vendorName,
                  [lat |-> p.latitude, lng |-> p.longitude, accuracy |-> p.accuracyMeters],
                  p.capturedAt, p.photoSha256)

\* signPayload over the client's payload, by the device holding the private key of k
DeviceSignature(b, k, g) ==
    IF g = "malformed" THEN Malformed
    ELSE Sign(IF g = "otherKey" THEN CHOOSE other \in Keys : other # k ELSE k,
              PayloadSigned(SignedBy(b, g)))

\* the body with the photo digest, the public key and the signature the client sends
Submitted(b, photoSha256, devicePublicKey, g) ==
    LET c == [b EXCEPT !.photoSha256 = photoSha256,
                       !.devicePublicKey = IF g = "badKey" THEN "not-a-key"
                                           ELSE devicePublicKey]
    IN [c EXCEPT !.deviceSignature = DeviceSignature(c, devicePublicKey, g)]

(* ------------------------------ state --------------------------------- *)

VARIABLES
    server_challenges,  \* table: sequence of rows, id = position
    visits,             \* table: set of rows [id, vendor_name]
    visit_events,       \* table: sequence of rows in insertion order
    photos,             \* PHOTO_DIR: file name -> content ("none" = no file)
    now,                \* wall clock, seconds
    req,                \* the request handlers in flight
    client              \* the state of the web client (App.jsx useState)

vars == <<server_challenges, visits, visit_events, photos, now, req, client>>

NoBody ==
    [ eventType |-> "NONE", vendorName |-> <<>>, latitude |-> 0, longitude |-> 0,
      accuracyMeters |-> 0, capturedAt |-> "", photoUrl |-> <<>>, photoSha256 |-> <<>>,
      devicePublicKey |-> "none", deviceSignature |-> Malformed,
      challengeId |-> 0, challengeNonce |-> <<>> ]

NoResp == [status |-> 0, error |-> "", visitId |-> 0, eventId |-> 0]

\* facts about a challenge row at one moment (history, for the properties)
NoSeen == [read |-> FALSE, found |-> FALSE, used |-> FALSE, expired |-> FALSE, nonceOk |-> FALSE]

\* pc: the await the handler is suspended at ("done": it has responded)
\* seen: the challenge row as the SELECT of verifyChallenge returned it
\* consumed: the challenge row at the moment the UPDATE of verifyChallenge ran
Idle ==
    [ pc |-> "idle", route |-> "none", visitId |-> 0, body |-> NoBody, resp |-> NoResp,
      seen |-> NoSeen, consumed |-> NoSeen ]

\* the web client on mount: nothing typed, no location, no photo, no key
\* (<<>> stands for null)
NoClient ==
    [ vendorName |-> <<>>, pos |-> <<>>, photoUrl |-> <<>>, photoSha |-> <<>>,
      keyPair |-> "none", loading |-> FALSE, status |-> "" ]

Init ==
    /\ server_challenges = <<>>
    /\ visits = {}
    /\ visit_events = <<>>
    /\ photos = [f \in PhotoFiles |-> "none"]
    /\ now = 0
    /\ req = [r \in Reqs |-> Idle]
    /\ client = NoClient

(* --------------------------- environment ------------------------------ *)

\* GET /api/challenge -> createChallenge
createChallenge ==
    /\ Len(server_challenges) < MaxChallenges
    /\ LET id == Len(server_challenges) + 1
       IN server_challenges' = Append(server_challenges,
              [ nonce |-> NonceOf(id),
                expires_at |-> now + CHALLENGE_TTL_SECONDS,
                used_at |-> NULL ])
    /\ UNCHANGED <<visits, visit_events, photos, now, req, client>>

\* vendorSlug and filename of POST /api/photos
PhotoFileName(vendorName, mime) ==
    LET rawVendor == Trim(vendorName)
        vendorSlug == [i \in DOMAIN rawVendor |->
                          IF IsSpace(rawVendor[i]) THEN "-" ELSE rawVendor[i]]
        ext == IF mime = "image/png" THEN "png" ELSE "jpg"
    IN vendorSlug \o <<".", ext>>

\* POST /api/photos
UploadPhoto(vendorName, mime, content) ==
    /\ Trim(vendorName) # <<>>
    /\ PhotoFileName(vendorName, mime) \in PhotoFiles
    /\ photos' = [photos EXCEPT ![PhotoFileName(vendorName, mime)] = content]
    /\ UNCHANGED <<server_challenges, visits, visit_events, now, req, client>>

(* ------------------- web client state (web/src/App.jsx) ---------------- *)

\* the vendor names a user may type, the blank one included
TypedVendors == { <<>>, <<" ">>, <<"a">> }
\* the accuracies the browser may report with a position
ReportedAccuracies == { 5, 50, 51 }
\* the files a user may pick or capture: content and MIME type
PickedFiles == { [buffer |-> c, mimetype |-> "image/jpeg"] : c \in Contents }

\* the multipart form of processPhoto: the part "photo" and nothing else
processPhotoForm(file) == [ photo |-> file ]

\* req.body?.vendorName || "" for a multipart form
FormVendorName(form) == IF "vendorName" \in DOMAIN form THEN form.vendorName ELSE <<>>

\* mime.startsWith("image/")
IsImage(mime) == mime \in { "image/jpeg", "image/png" }

\* the answer of POST /api/photos to a multipart form
PostPhotos(form) ==
    IF "photo" \notin DOMAIN form
    THEN [status |-> 400, error |-> "Missing photo", photoUrl |-> <<>>]
    ELSE IF ~IsImage(form.photo.mimetype)
    THEN [status |-> 400, error |-> "Invalid file type", photoUrl |-> <<>>]
    ELSE IF Trim(FormVendorName(form)) = <<>>
    THEN [status |-> 400, error |-> "Missing vendorName", photoUrl |-> <<>>]
    ELSE [status |-> 200, error |-> "",
          photoUrl |-> <<"/uploads/">> \o PhotoFileName(FormVendorName(form),
                                                         form.photo.mimetype)]

\* onChange of the vendor name input
setVendorName(v) ==
    /\ client.vendorName # v
    /\ client' = [client EXCEPT !.vendorName = v]
    /\ UNCHANGED <<server_challenges, visits, visit_events, photos, now, req>>

\* getLocation, when the browser reports a position
getLocation(latitude, accuracy) ==
    /\ client' = IF accuracy > ACCURACY_THRESHOLD
                 THEN [client EXCEPT !.status = "Accuracy exceeds threshold"]
                 ELSE [client EXCEPT
                         !.pos = << [lat |-> latitude, lng |-> 0 - 122, accuracy |-> accuracy] >>,
                         !.status = "Location captured"]
    /\ UNCHANGED <<server_challenges, visits, visit_events, photos, now, req>>

\* the effect on mount: the device key is loaded or generated
initKeys(k) ==
    /\ client.keyPair = "none"
    /\ client' = [client EXCEPT !.keyPair = k, !.status = "Device key ready"]
    /\ UNCHANGED <<server_challenges, visits, visit_events, photos, now, req>>

\* processPhoto: the upload and what the client does with the answer
processPhoto(file) ==
    LET res == PostPhotos(processPhotoForm(file))
    IN /\ photos' = IF res.status = 200 /\ Tail(res.photoUrl) \in PhotoFiles
                    THEN [photos EXCEPT ![Tail(res.photoUrl)] = file.buffer]
                    ELSE photos
       /\ client' = IF res.status = 200
                    THEN [client EXCEPT !.photoUrl = res.photoUrl,
                                        !.photoSha = sha256Hex(file.buffer),
                                        !.status = "Photo captured and uploaded"]
                    ELSE [client EXCEPT !.status = "Photo error: Upload failed"]
       /\ UNCHANGED <<server_challenges, visits, visit_events, now, req>>

\* duplicateVisit, over the visits the server lists
duplicateVisit ==
    /\ Trim(client.vendorName) # <<>>
    /\ \E v \in visits : Lower(Trim(v.vendor_name)) = Lower(Trim(client.vendorName))

\* checkIn, from the click to the challenge it fetches; ok is the user's answer to the
\* confirmation. The POST that follows is the arrival of a request at the server.
checkIn(ok) ==
    IF client.loading THEN FALSE
    ELSE IF Trim(client.vendorName) = <<>>
    THEN /\ client' = [client EXCEPT !.status = "Enter vendor name"]
         /\ UNCHANGED <<server_challenges, visits, visit_events, photos, now, req>>
    ELSE IF client.pos = <<>>
    THEN /\ client' = [client EXCEPT !.status = "Set location first"]
         /\ UNCHANGED <<server_challenges, visits, visit_events, photos, now, req>>
    ELSE IF client.photoUrl = <<>>
    THEN /\ client' = [client EXCEPT !.status = "Capture photo first"]
         /\ UNCHANGED <<server_challenges, visits, visit_events, photos, now, req>>
    ELSE IF client.keyPair = "none"
    THEN /\ client' = [client EXCEPT !.status = "Keys not ready"]
         /\ UNCHANGED <<server_challenges, visits, visit_events, photos, now, req>>
    ELSE IF duplicateVisit
    THEN /\ client' = [client EXCEPT !.status = "Vendor name already exists"]
         /\ UNCHANGED <<server_challenges, visits, visit_events, photos, now, req>>
    ELSE IF ~ok
    THEN /\ client' = [client EXCEPT !.status = "Check-in cancelled"]
         /\ UNCHANGED <<server_challenges, visits, visit_events, photos, now, req>>
    ELSE /\ Len(server_challenges) < MaxChallenges
         /\ server_challenges' = Append(server_challenges,
                [ nonce |-> NonceOf(Len(server_challenges) + 1),
                  expires_at |-> now + CHALLENGE_TTL_SECONDS,
                  used_at |-> NULL ])
         /\ client' = [client EXCEPT !.loading = TRUE, !.status = "Requesting challenge"]
         /\ UNCHANGED <<visits, visit_events, photos, now, req>>

\* time passes
Tick ==
    /\ now < MaxTicks * TickSeconds
    /\ now' = now + TickSeconds
    /\ UNCHANGED <<server_challenges, visits, visit_events, photos, req, client>>

(* ------------------------ validation and gates ------------------------ *)

EventTypes == { "CHECK_IN", "CHECK_OUT" }

\* a photoSha256 that is not 64 characters long
NotADigest == <<"sha">>
\* a challengeId that is not a UUID
NotAUuid == 0 - 1

\* variant: a schema that tests the event type only
EventSchemaLax(b) == b.eventType \in EventTypes

\* z.object({...}).safeParse.  Of the fields a handler holds only from a later step, a
\* body carries on arrival either nothing yet or a value the schema refuses.
EventSchema(b) ==
    /\ b.eventType \in EventTypes
    /\ Len(b.vendorName) >= 1 /\ Len(b.vendorName) <= 255
    /\ b.latitude >= -90 /\ b.latitude <= 90
    /\ b.longitude >= -180 /\ b.longitude <= 180
    /\ b.accuracyMeters >= 0 /\ b.accuracyMeters <= 100000
    /\ b.photoSha256 # NotADigest
    /\ b.challengeId # NotAUuid

photoExists(photoUrl) ==
    /\ Head(photoUrl) = "/uploads/"
    /\ Tail(photoUrl) \in DOMAIN photos
    /\ photos[Tail(photoUrl)] # "none"

(* --------------------------- storage rules ---------------------------- *)

\* variant: the visits table with its primary key only, uniq_vendor_name dropped
VisitInsertAllowedNoIndex(id, vendor_name) ==
    \A v \in visits : v.id # id

\* CREATE UNIQUE INDEX uniq_vendor_name ON visits (LOWER(vendor_name)), and the primary key
VisitInsertAllowed(id, vendor_name) ==
    /\ \A v \in visits : v.id # id
    /\ \A v \in visits : Lower(v.vendor_name) # Lower(vendor_name)

EventsOf(visitId, eventType) ==
    { i \in DOMAIN visit_events :
        visit_events[i].visit_id = visitId /\ visit_events[i].event_type = eventType }

\* variant: visit_events with uniq_one_checkin_per_visit and uniq_one_checkout_per_visit
\* dropped
EventInsertAllowedNoIndex(row) ==
    /\ \E v \in visits : v.id = row.visit_id
    /\ row.server_challenge_id \in DOMAIN server_challenges
    /\ row.event_type \in EventTypes

\* visit_events: foreign keys, CHECK (event_type ...), uniq_one_checkin_per_visit,
\* uniq_one_checkout_per_visit
EventInsertAllowed(row) ==
    /\ \E v \in visits : v.id = row.visit_id
    /\ row.server_challenge_id \in DOMAIN server_challenges
    /\ row.event_type \in EventTypes
    /\ EventsOf(row.visit_id, row.event_type) = {}

(* ------------------------------ handlers ------------------------------ *)

\* the handler returns: its locals are gone, the state keeps the route, what
\* verifyChallenge saw and the response
Returned(h) == [Idle EXCEPT !.pc = "done", !.route = h.route, !.seen = h.seen]

\* res.status(status).json({error})
Reject(h, status, error) ==
    [Returned(h) EXCEPT !.resp = [NoResp EXCEPT !.status = status, !.error = error]]

\* crypto.randomUUID() for a visit: an id no row and no handler holds
FreeVisitIds ==
    { id \in VisitIds :
        /\ \A v \in visits : v.id # id
        /\ \A r \in Reqs : req[r].visitId # id }

NewVisitId == CHOOSE id \in FreeVisitIds : \A other \in FreeVisitIds : id <= other

\* variant: insertEvent without the precondition gate
insertEventGateOpen(h) == [h EXCEPT !.pc = "verify_select"]

\* insertEvent, the precondition gate, up to the first await
insertEventGate(h) ==
    IF h.body.accuracyMeters > ACCURACY_THRESHOLD_METERS
    THEN Reject(h, 400, "Accuracy must be <= 5 meters")
    ELSE IF ~photoExists(h.body.photoUrl)
    THEN Reject(h, 400, "Photo not found. Upload photo first.")
    ELSE [h EXCEPT !.pc = "verify_select"]

\* the fields a handler has parsed on arrival
Arrived(eventType, vendorName, latitude) ==
    [ NoBody EXCEPT !.eventType = eventType, !.vendorName = vendorName,
                    !.latitude = latitude, !.longitude = -122,
                    !.capturedAt = "2024-01-01T00:00:00Z" ]

\* variant: check-in without the duplicate-name lookup
CheckInLookupNoLookup(h) ==
    IF ~EventSchema(h.body)
    THEN Reject(h, 400, "Invalid payload")
    ELSE IF h.body.eventType # "CHECK_IN"
    THEN Reject(h, 400, "eventType must be CHECK_IN")
    ELSE [h EXCEPT !.pc = "insert_visit", !.visitId = NewVisitId]

\* POST /api/visits/check-in: validation, the duplicate-name lookup and its result
CheckInLookup(h) ==
    IF ~EventSchema(h.body)
    THEN Reject(h, 400, "Invalid payload")
    ELSE IF h.body.eventType # "CHECK_IN"
    THEN Reject(h, 400, "eventType must be CHECK_IN")
    ELSE IF \E v \in visits : Lower(v.vendor_name) = Lower(h.body.vendorName)
    THEN Reject(h, 409, "Vendor name already exists")
    ELSE [h EXCEPT !.pc = "insert_visit", !.visitId = NewVisitId]

\* a request is taken by the first handler that is not busy
Free(r) ==
    /\ req[r].pc \in {"idle", "done", "crashed"}
    /\ \A q \in Reqs : q < r => req[q].pc \notin {"idle", "done", "crashed"}

\* no check-in arrives once the visit ids are used up
CheckInStart(r, body) ==
    /\ Free(r)
    /\ FreeVisitIds # {}
    /\ req' = [req EXCEPT ![r] =
                  CheckInLookup([Idle EXCEPT !.route = "check-in", !.body = body])]
    /\ UNCHANGED <<server_challenges, visits, visit_events, photos, now, client>>

\* insertEvent entered with the body's accuracyMeters and photoUrl
insertEventEnter(h) ==
    { insertEventGate([h EXCEPT !.body.accuracyMeters = a, !.body.photoUrl = u]) :
        a \in Accuracies, u \in PhotoUrls }

\* INSERT INTO visits, then insertEvent up to its first await
CheckInInsertVisit(r) ==
    /\ req[r].pc = "insert_visit"
    /\ LET normalizedVendor == Trim(req[r].body.vendorName)
       IN IF VisitInsertAllowed(req[r].visitId, normalizedVendor)
          THEN /\ visits' = visits \cup
                                {[id |-> req[r].visitId, vendor_name |-> normalizedVendor]}
               /\ \E h \in insertEventEnter(req[r]) : req' = [req EXCEPT ![r] = h]
          ELSE /\ visits' = visits
               /\ req' = [req EXCEPT ![r] = Reject(req[r], 500, "Failed to create visit")]
    /\ UNCHANGED <<server_challenges, visit_events, photos, now, client>>

\* variant: check-out without the comparison of vendor names
CheckOutLookupNoMatch(h) ==
    IF ~EventSchema(h.body)
    THEN { Reject(h, 400, "Invalid payload") }
    ELSE IF h.body.eventType # "CHECK_OUT"
    THEN { Reject(h, 400, "eventType must be CHECK_OUT") }
    ELSE IF \A v \in visits : v.id # h.visitId
    THEN { Reject(h, 404, "Visit not found") }
    ELSE insertEventEnter(h)

\* POST /api/visits/:visitId/check-out: validation, the visit lookup and its result,
\* then insertEvent up to its first await
CheckOutLookup(h) ==
    LET rows == { v \in visits : v.id = h.visitId }
    IN IF ~EventSchema(h.body)
       THEN { Reject(h, 400, "Invalid payload") }
       ELSE IF h.body.eventType # "CHECK_OUT"
       THEN { Reject(h, 400, "eventType must be CHECK_OUT") }
       ELSE IF rows = {}
       THEN { Reject(h, 404, "Visit not found") }
       ELSE LET checkInVendor == (CHOOSE v \in rows : TRUE).vendor_name
                normalizedCheckIn == Lower(Trim(checkInVendor))
                normalizedCheckOut == Lower(Trim(h.body.vendorName))
            IN IF normalizedCheckOut # normalizedCheckIn
               THEN { Reject(h, 400, "Vendor mismatch") }
               ELSE insertEventEnter(h)

CheckOutStart(r, visitId, body) ==
    /\ Free(r)
    /\ \E h \in CheckOutLookup([Idle EXCEPT !.route = "check-out", !.visitId = visitId,
                                            !.body = body]) :
          req' = [req EXCEPT ![r] = h]
    /\ UNCHANGED <<server_challenges, visits, visit_events, photos, now, client>>

\* variant: verifyChallenge without its UPDATE
MarkUsedNot(rows, challengeId, clock) == rows

\* UPDATE server_challenges SET used_at = NOW() WHERE id = $1
MarkUsed(rows, challengeId, clock) == [rows EXCEPT ![challengeId].used_at = clock]

\* variant: verifyChallenge testing expiry before use
verifyChallengeReasonExpiryFirst(rows, challengeId, challengeNonce, clock) ==
    IF challengeId \notin DOMAIN rows THEN "Challenge not found"
    ELSE IF clock > rows[challengeId].expires_at THEN "Challenge expired"
    ELSE IF rows[challengeId].used_at # NULL THEN "Challenge already used"
    ELSE IF rows[challengeId].nonce # challengeNonce THEN "Challenge nonce mismatch"
    ELSE "ok"

\* variant: verifyChallenge testing the nonce before expiry
verifyChallengeReasonNonceFirst(rows, challengeId, challengeNonce, clock) ==
    IF challengeId \notin DOMAIN rows THEN "Challenge not found"
    ELSE IF rows[challengeId].used_at # NULL THEN "Challenge already used"
    ELSE IF rows[challengeId].nonce # challengeNonce THEN "Challenge nonce mismatch"
    ELSE IF clock > rows[challengeId].expires_at THEN "Challenge expired"
    ELSE "ok"

\* variant: verifyChallenge without the comparison of nonces
verifyChallengeReasonNoNonce(rows, challengeId, challengeNonce, clock) ==
    IF challengeId \notin DOMAIN rows THEN "Challenge not found"
    ELSE IF rows[challengeId].used_at # NULL THEN "Challenge already used"
    ELSE IF clock > rows[challengeId].expires_at THEN "Challenge expired"
    ELSE "ok"

\* verifyChallenge, lines 170-178: the reason it returns for a row as read
verifyChallengeReason(rows, challengeId, challengeNonce, clock) ==
    IF challengeId \notin DOMAIN rows THEN "Challenge not found"
    ELSE IF rows[challengeId].used_at # NULL THEN "Challenge already used"
    ELSE IF clock > rows[challengeId].expires_at THEN "Challenge expired"
    ELSE IF rows[challengeId].nonce # challengeNonce THEN "Challenge nonce mismatch"
    ELSE "ok"

\* the facts about a challenge row in the current state
Observe(challengeId, challengeNonce) ==
    LET found == challengeId \in DOMAIN server_challenges
    IN [ read |-> TRUE,
         found |-> found,
         used |-> found /\ server_challenges[challengeId].used_at # NULL,
         expired |-> found /\ now > server_challenges[challengeId].expires_at,
         nonceOk |-> found /\ server_challenges[challengeId].nonce = challengeNonce ]

\* verifyChallenge: SELECT ... FROM server_challenges WHERE id = $1, and the checks on the row
VerifyChallengeSelect(r, challengeId, challengeNonce) ==
    /\ req[r].pc = "verify_select"
    /\ LET reason == verifyChallengeReason(server_challenges, challengeId, challengeNonce, now)
           h == [req[r] EXCEPT !.body.challengeId = challengeId,
                               !.body.challengeNonce = challengeNonce,
                               !.seen = Observe(challengeId, challengeNonce)]
       IN req' = [req EXCEPT ![r] =
                     IF reason = "ok" THEN [h EXCEPT !.pc = "verify_update"]
                     ELSE Reject(h, 400, reason)]
    /\ UNCHANGED <<server_challenges, visits, visit_events, photos, now, client>>

\* variant: a signature check that throws on material that does not parse
insertEventVerifyThrows(h) ==
    LET payload == buildSigningPayload(h.body)
        sigOk == verifySignature(h.body.devicePublicKey, h.body.deviceSignature, payload)
    IN IF h.body.devicePublicKey \notin Keys \/ h.body.deviceSignature = Malformed
       THEN [Idle EXCEPT !.pc = "crashed", !.route = h.route]
       ELSE IF ~sigOk THEN Reject(h, 400, "Invalid device signature")
       ELSE [h EXCEPT !.pc = "insert_event"]

\* insertEvent after verifyChallenge returned ok: the signature check (lines 230-232)
insertEventVerify(h) ==
    LET payload == buildSigningPayload(h.body)
        sigOk == verifySignature(h.body.devicePublicKey, h.body.deviceSignature, payload)
    IN IF ~sigOk THEN Reject(h, 400, "Invalid device signature")
       ELSE [h EXCEPT !.pc = "insert_event"]

\* verifyChallenge: UPDATE server_challenges SET used_at = NOW() WHERE id = $1
VerifyChallengeUpdate(r, photoSha256, devicePublicKey, g) ==
    /\ req[r].pc = "verify_update"
    /\ server_challenges' = MarkUsed(server_challenges, req[r].body.challengeId, now)
    /\ \E b \in { Submitted(req[r].body, photoSha256, devicePublicKey, g) } :
          req' = [req EXCEPT ![r] =
                     insertEventVerify([req[r] EXCEPT
                         !.consumed = Observe(b.challengeId, b.challengeNonce),
                         !.body = b])]
    /\ UNCHANGED <<visits, visit_events, photos, now, client>>

\* the row insertEvent writes (lines 246-262)
EventRow(visitId, body) ==
    [ visit_id |-> visitId,
      event_type |-> body.eventType,
      vendor_name |-> body.vendorName,
      latitude |-> body.latitude,
      longitude |-> body.longitude,
      accuracy_meters |-> body.accuracyMeters,
      captured_at |-> body.capturedAt,
      photo_url |-> body.photoUrl,
      photo_sha256 |-> body.photoSha256,
      device_public_key |-> body.devicePublicKey,
      device_signature |-> body.deviceSignature,
      server_challenge_id |-> body.challengeId ]

\* variant: insertEvent answering without writing the row
InsertEventRowLost(r) ==
    /\ req[r].pc = "insert_event"
    /\ req' = [req EXCEPT ![r] =
                  [Returned(req[r]) EXCEPT
                      !.resp = [status |-> 201, error |-> "", visitId |-> req[r].visitId,
                                eventId |-> Len(visit_events) + 1]]]
    /\ UNCHANGED <<server_challenges, visits, visit_events, photos, now, client>>

\* INSERT INTO visit_events and the response
InsertEventRow(r) ==
    /\ req[r].pc = "insert_event"
    /\ Len(visit_events) < MaxEvents
    /\ LET row == EventRow(req[r].visitId, req[r].body)
       IN IF EventInsertAllowed(row)
          THEN /\ visit_events' = Append(visit_events, row)
               /\ req' = [req EXCEPT ![r] =
                             [Returned(req[r]) EXCEPT
                                 !.resp = [status |-> 201, error |-> "",
                                           visitId |-> req[r].visitId,
                                           eventId |-> Len(visit_events) + 1]]]
          ELSE /\ visit_events' = visit_events
               /\ req' = [req EXCEPT ![r] = Reject(req[r], 500, "Failed to save event")]
    /\ UNCHANGED <<server_challenges, visits, photos, now, client>>

(* ------------------------- storage failures --------------------------- *)

\* an await pool.query(...) outside every try/catch rejects: the rejection leaves the
\* async handler; the request is left without a response ("crashed"), or the framework
\* answers it with its own 500 page
Unhandled(h) ==
    { [Idle EXCEPT !.pc = "crashed", !.route = h.route],
      Reject(h, 500, "Internal Server Error") }

\* check-in: the duplicate-name lookup throws (catch, lines 286-288)
CheckInLookupFails(r, body) ==
    /\ Free(r)
    /\ EventSchema(body) /\ body.eventType = "CHECK_IN"
    /\ req' = [req EXCEPT ![r] =
                  Reject([Idle EXCEPT !.route = "check-in"], 500,
                         "Failed to validate vendor name")]
    /\ UNCHANGED <<server_challenges, visits, visit_events, photos, now, client>>

\* check-in: INSERT INTO visits throws (catch, lines 295-297)
CheckInInsertVisitFails(r) ==
    /\ req[r].pc = "insert_visit"
    /\ req' = [req EXCEPT ![r] = Reject(req[r], 500, "Failed to create visit")]
    /\ UNCHANGED <<server_challenges, visits, visit_events, photos, now, client>>

\* check-out: the visit lookup throws (line 314, no try/catch)
CheckOutLookupFails(r, body) ==
    /\ Free(r)
    /\ EventSchema(body) /\ body.eventType = "CHECK_OUT"
    /\ \E h \in Unhandled([Idle EXCEPT !.route = "check-out"]) : req' = [req EXCEPT ![r] = h]
    /\ UNCHANGED <<server_challenges, visits, visit_events, photos, now, client>>

\* verifyChallenge: the SELECT throws (lines 165-168, no try/catch up to the route)
VerifyChallengeSelectFails(r) ==
    /\ req[r].pc = "verify_select"
    /\ \E h \in Unhandled(req[r]) : req' = [req EXCEPT ![r] = h]
    /\ UNCHANGED <<server_challenges, visits, visit_events, photos, now, client>>

\* verifyChallenge: the UPDATE throws (line 180, no try/catch up to the route)
VerifyChallengeUpdateFails(r) ==
    /\ req[r].pc = "verify_update"
    /\ \E h \in Unhandled(req[r]) : req' = [req EXCEPT ![r] = h]
    /\ UNCHANGED <<server_challenges, visits, visit_events, photos, now, client>>

\* insertEvent: INSERT INTO visit_events throws (catch, lines 266-268)
InsertEventRowFails(r) ==
    /\ req[r].pc = "insert_event"
    /\ req' = [req EXCEPT ![r] = Reject(req[r], 500, "Failed to save event")]
    /\ UNCHANGED <<server_challenges, visits, visit_events, photos, now, client>>

(* --------------------------- specification ---------------------------- *)

\* bodies sent to a route by clients using the vendor names V: the route's event type
\* with every name, and one body each with the other event type, with a latitude out
\* of range, with a digest of the wrong length and with a malformed challenge id
Arrivals(eventType, V) ==
    { Arrived(eventType, v, 37) : v \in V }
      \cup { Arrived(t, <<"a">>, 37) : t \in EventTypes \ {eventType} }
      \cup { Arrived(eventType, <<"a">>, lat) : lat \in Latitudes \ {37} }
      \cup { [Arrived(eventType, <<"a">>, 37) EXCEPT !.photoSha256 = NotADigest],
             [Arrived(eventType, <<"a">>, 37) EXCEPT !.challengeId = NotAUuid] }

\* the signatures clients submit where the signature check is not the subject
BaseSignings == { "exact", "challengeNonce", "malformed" }

\* the steps of the request handlers, for clients checking in with the vendor names V,
\* checking out with the vendor names W and signing as G tells
Requests(V, W, G) ==
    \/ \E r \in Reqs, b \in Arrivals("CHECK_IN", V) : CheckInStart(r, b)
    \/ \E r \in Reqs : CheckInInsertVisit(r)
    \/ \E r \in Reqs, id \in VisitIds, b \in Arrivals("CHECK_OUT", W) : CheckOutStart(r, id, b)
    \/ \E r \in Reqs, c \in ChallengeIds, n \in Nonces : VerifyChallengeSelect(r, c, n)
    \/ \E r \in Reqs, d \in Digests, k \in SubmittedKeys, g \in G :
          VerifyChallengeUpdate(r, d, k, g)
    \/ \E r \in Reqs : InsertEventRow(r)

\* uploads of photos with the contents C
Uploads(C) == \E v \in Vendors, c \in C : UploadPhoto(v, "image/jpeg", c)

\* every interleaving of two handlers, challenge issuance and uploads, the clock held
Next ==
    \/ createChallenge
    \/ Uploads(Contents)
    \/ Requests(Vendors, Vendors, BaseSignings)

Spec == Init /\ [][Next]_vars

\* the same with the clock advancing, for clients using one vendor name
NextClock ==
    \/ createChallenge
    \/ Uploads(Contents)
    \/ Tick
    \/ Requests(ClockVendors, ClockVendors, BaseSignings)

SpecClock == Init /\ [][NextClock]_vars

\* the clock held, for clients whose vendor names carry whitespace
NextTrim ==
    \/ createChallenge
    \/ Uploads(Contents)
    \/ Requests(TrimVendors, TrimVendors \cup OtherVendors, BaseSignings)

SpecTrim == Init /\ [][NextTrim]_vars

\* the clock held, one vendor name, for devices signing in every way of Signings
NextSign ==
    \/ createChallenge
    \/ Uploads(Contents)
    \/ Requests(ClockVendors, ClockVendors, Signings)

SpecSign == Init /\ [][NextSign]_vars

\* the clock held, one vendor name, for clients that upload again
NextPhoto ==
    \/ createChallenge
    \/ Uploads(LaterContents)
    \/ Requests(ClockVendors, ClockVendors, BaseSignings)

SpecPhoto == Init /\ [][NextPhoto]_vars

\* what the user does with the web client
ClientSteps ==
    \/ \E v \in TypedVendors : setVendorName(v)
    \/ \E a \in ReportedAccuracies : getLocation(37, a)
    \/ \E k \in SubmittedKeys : initKeys(k)
    \/ \E f \in PickedFiles : processPhoto(f)
    \/ \E ok \in BOOLEAN : checkIn(ok)

\* the web client in front of the server, next to clients that upload by themselves
NextClient ==
    \/ createChallenge
    \/ Uploads(Contents)
    \/ ClientSteps

SpecClient == Init /\ [][NextClient]_vars

\* the storage may fail at any query
Failures(V) ==
    \/ \E r \in Reqs, b \in Arrivals("CHECK_IN", V) : CheckInLookupFails(r, b)
    \/ \E r \in Reqs : CheckInInsertVisitFails(r)
    \/ \E r \in Reqs, b \in Arrivals("CHECK_OUT", V) : CheckOutLookupFails(r, b)
    \/ \E r \in Reqs : VerifyChallengeSelectFails(r)
    \/ \E r \in Reqs : VerifyChallengeUpdateFails(r)
    \/ \E r \in Reqs : InsertEventRowFails(r)

NextFail ==
    \/ createChallenge
    \/ Uploads(Contents)
    \/ Requests(ClockVendors, ClockVendors, BaseSignings)
    \/ Failures(ClockVendors)

SpecFail == Init /\ [][NextFail]_vars

\* the next step of the request handler r: the query it awaits is answered
HandlerStep(r) ==
    \/ CheckInInsertVisit(r)
    \/ \E c \in ChallengeIds, n \in Nonces : VerifyChallengeSelect(r, c, n)
    \/ \E d \in Digests, k \in SubmittedKeys, g \in BaseSignings :
          VerifyChallengeUpdate(r, d, k, g)
    \/ InsertEventRow(r)

NextLive ==
    \/ createChallenge
    \/ Uploads(Contents)
    \/ Requests(ClockVendors, ClockVendors, BaseSignings)

\* the storage answers every query: no handler waits forever at an await
SpecLive == Init /\ [][NextLive]_vars /\ \A r \in Reqs : WF_vars(HandlerStep(r))

(* ----------------------------- properties ----------------------------- *)

\* a handler is between two awaits
InFlight(r) == req[r].pc \notin {"idle", "done", "crashed"}

\* the step in which verifyChallenge of handler r returns ok
ConsumeOk(r) == req[r].pc = "verify_update" /\ req'[r].pc # "verify_update"

\* the step in which handler r persists an event
Persists(r) == req[r].pc = "insert_event" /\ Len(visit_events') = Len(visit_events) + 1

\* C1: of the verifyChallenge calls made for one challenge at most one returns ok: every
\* call that returns ok is the one that took the challenge from unused to used
C1_SingleConsume ==
    [][\A r \in Reqs :
          ConsumeOk(r) => server_challenges[req[r].body.challengeId].used_at = NULL]_vars

\* C2: no two rows of visit_events reference the same challenge id
C2_ChallengeBacksOneEvent ==
    \A i, j \in DOMAIN visit_events :
        i # j => visit_events[i].server_challenge_id # visit_events[j].server_challenge_id

\* C3: a visit row exists only together with its CHECK_IN event: once the check-in that
\* created it has responded, a visit row without a CHECK_IN event does not exist
C3_VisitOnlyWithCheckIn ==
    \A v \in visits :
        \/ EventsOf(v.id, "CHECK_IN") # {}
        \/ \E r \in Reqs : InFlight(r) /\ req[r].route = "check-in" /\ req[r].visitId = v.id

\* C4: at most one visit per vendor name compared case-insensitively, and a visit row is
\* never removed, so a name once used stays taken
C4_VendorNameOnce ==
    [][/\ visits \subseteq visits'
       /\ \A v, w \in visits' : Lower(v.vendor_name) = Lower(w.vendor_name) => v = w]_vars

\* a visit is checked in and checked out, and a later check-in was turned away
C4_Witness ==
    /\ \E v \in visits : EventsOf(v.id, "CHECK_IN") # {} /\ EventsOf(v.id, "CHECK_OUT") # {}
    /\ \E r \in Reqs : req[r].resp.error = "Vendor name already exists"

\* C5: a check-in that loses the race for a vendor name (the name was inserted, in any
\* casing, after its lookup) is rejected with 'Vendor name already exists'
C5_LoserGetsDuplicateVendor ==
    [][\A r \in Reqs :
          ( /\ req[r].pc = "insert_visit"
            /\ req'[r].pc = "done"
            /\ \E v \in visits : Lower(v.vendor_name) = Lower(req[r].body.vendorName) )
          => req'[r].resp.error = "Vendor name already exists"]_vars

\* C6: every CHECK_OUT row follows a CHECK_IN row of the same visit
C6_CheckOutAfterCheckIn ==
    \A j \in DOMAIN visit_events :
        visit_events[j].event_type = "CHECK_OUT"
        => \E i \in 1..(j - 1) :
              /\ visit_events[i].event_type = "CHECK_IN"
              /\ visit_events[i].visit_id = visit_events[j].visit_id

\* C7: a visit has at most one CHECK_IN row and at most one CHECK_OUT row
C7_OneEventOfEachType ==
    \A id \in VisitIds, t \in EventTypes : Cardinality(EventsOf(id, t)) <= 1

\* a visit holds both events and a further event for it was refused by the table
C7_Witness ==
    /\ \E v \in visits : EventsOf(v.id, "CHECK_IN") # {} /\ EventsOf(v.id, "CHECK_OUT") # {}
    /\ \E r \in Reqs : req[r].resp.error = "Failed to save event"

\* a challenge row that exists, is unused and unexpired and carries the presented nonce
Fresh == [read |-> TRUE, found |-> TRUE, used |-> FALSE, expired |-> FALSE, nonceOk |-> TRUE]

\* the signing payload rebuilt from a persisted row and the nonce of its challenge
PayloadOfRow(e) ==
    buildSigningPayload(
        [ challengeNonce |-> server_challenges[e.server_challenge_id].nonce,
          eventType |-> e.event_type, vendorName |-> e.vendor_name,
          latitude |-> e.latitude, longitude |-> e.longitude,
          accuracyMeters |-> e.accuracy_meters, capturedAt |-> e.captured_at,
          photoSha256 |-> e.photo_sha256 ])

\* C8: every event is persisted by a request that passed the whole pipeline: accuracy
\* within the threshold, the photo present, its challenge existing, unused, unexpired
\* and matching the presented nonce when the request consumed it, and the signature
\* verifying over the payload of the persisted fields
C8_PersistedPassedPipeline ==
    [][\A r \in Reqs :
          Persists(r) =>
              LET e == visit_events'[Len(visit_events')]
              IN /\ e.accuracy_meters <= ACCURACY_THRESHOLD_METERS
                 /\ photoExists(e.photo_url)
                 /\ e.server_challenge_id \in DOMAIN server_challenges
                 /\ req[r].consumed = Fresh
                 /\ verifySignature(e.device_public_key, e.device_signature,
                                    PayloadOfRow(e))]_vars

ChallengeReasons ==
    { "Challenge not found", "Challenge already used", "Challenge expired",
      "Challenge nonce mismatch" }

\* what verifyChallenge returned to a handler that has called it
ReasonGiven(r) ==
    IF req[r].pc = "done" /\ req[r].resp.error \in ChallengeReasons
    THEN req[r].resp.error
    ELSE "ok"

\* C9: verifyChallenge reports the first failing condition in the order not found,
\* already used, expired, nonce mismatch, and ok only when none fails
C9_ReasonPrecedence ==
    \A r \in Reqs :
        req[r].seen.read =>
            LET s == req[r].seen
                reason == ReasonGiven(r)
            IN /\ (reason = "Challenge not found") <=> ~s.found
               /\ (reason = "Challenge already used") <=> (s.found /\ s.used)
               /\ (reason = "Challenge expired") <=> (s.found /\ ~s.used /\ s.expired)
               /\ (reason = "Challenge nonce mismatch")
                     <=> (s.found /\ ~s.used /\ ~s.expired /\ ~s.nonceOk)
               /\ (reason = "ok") <=> (s.found /\ ~s.used /\ ~s.expired /\ s.nonceOk)

\* a used, expired challenge presented with a wrong nonce is reported as already used
C9_Witness ==
    \E r \in Reqs :
        /\ req[r].seen.used /\ req[r].seen.expired /\ ~req[r].seen.nonceOk
        /\ req[r].resp.error = "Challenge already used"

Answered(r, error) ==
    req[r].pc # "done" /\ req'[r].pc = "done" /\ req'[r].resp.error = error

\* the step in which handler r reads its challenge in verifyChallenge
Reads(r) == req[r].pc = "verify_select" /\ req'[r].pc # "verify_select"

\* C11: a submission rejected for its signature leaves its challenge marked used, a used
\* challenge stays used, and every submission that presents a used challenge
\* afterwards is rejected with 'Challenge already used' and persists no event
C11_BadSignatureBurnsChallenge ==
    [][/\ \A r \in Reqs :
             Answered(r, "Invalid device signature")
             => server_challenges'[req[r].body.challengeId].used_at # NULL
       /\ \A c \in DOMAIN server_challenges :
             server_challenges[c].used_at # NULL => server_challenges'[c].used_at # NULL
       /\ \A r \in Reqs :
             (Reads(r) /\ req'[r].seen.used)
             => /\ req'[r].pc = "done"
                /\ req'[r].resp.error = "Challenge already used"
                /\ req'[r].resp.eventId = 0
                /\ visit_events' = visit_events]_vars

\* the only challenge was burnt by a bad signature and then presented again
C11_Witness ==
    /\ Len(server_challenges) = 1
    /\ visit_events = <<>>
    /\ req[1].resp.error = "Invalid device signature"
    /\ req[2].resp.error = "Challenge already used"

GateErrors == { "Accuracy must be <= 5 meters", "Photo not found. Upload photo first." }

\* C12: a submission rejected by the precondition gate leaves every challenge row as it
\* was, and only a submission that passed the gate marks a challenge used
C12_GateBeforeConsume ==
    [][\A r \in Reqs :
          /\ (req[r].pc # "done" /\ req'[r].pc = "done" /\ req'[r].resp.error \in GateErrors)
             => server_challenges' = server_challenges
          /\ ConsumeOk(r)
             => /\ req[r].body.accuracyMeters <= ACCURACY_THRESHOLD_METERS
                /\ photoExists(req[r].body.photoUrl)]_vars

\* a submission was turned away by the gate and the only challenge was consumed by a
\* submission that persisted its event
C12_Witness ==
    /\ Len(server_challenges) = 1
    /\ Len(visit_events) = 1
    /\ \E r \in Reqs : req[r].resp.error \in GateErrors

\* the step in which a request arrives at handler r
Arrives(r) == req[r].pc \in {"idle", "done", "crashed"} /\ req'[r] # req[r]

PayloadErrors == { "Invalid payload", "eventType must be CHECK_IN", "eventType must be CHECK_OUT" }

\* a visit whose check-in succeeded
CheckedIn == { v \in visits : EventsOf(v.id, "CHECK_IN") # {} }

NameTaken(vendorName) ==
    \E v \in visits : Lower(v.vendor_name) = Lower(Trim(vendorName))

C14_SecondCheckOutAlreadyClosed ==
    [][\A r \in Reqs :
          ( /\ req[r].route = "check-out"
            /\ req[r].pc = "insert_event"
            /\ EventsOf(req[r].visitId, "CHECK_OUT") # {}
            /\ req'[r].pc = "done" )
          => /\ req'[r].resp.status # 500
             /\ req'[r].resp.error # "Failed to save event"]_vars

\* C16: no challenge row is removed, and a used_at that is set is never written again
C16_UsedAtWrittenOnce ==
    [][/\ Len(server_challenges') >= Len(server_challenges)
       /\ \A c \in DOMAIN server_challenges :
             server_challenges[c].used_at # NULL
             => server_challenges'[c].used_at = server_challenges[c].used_at]_vars

\* rows i and j are the CHECK_IN and the CHECK_OUT of one visit
PairOfVisit(events, i, j) ==
    /\ events[i].visit_id = events[j].visit_id
    /\ events[i].event_type = "CHECK_IN"
    /\ events[j].event_type = "CHECK_OUT"

C17_AlwaysAnswered ==
    \A r \in Reqs :
        /\ req[r].pc # "crashed"
        /\ req[r].resp.error # "Internal Server Error"

\* the generic failures the handlers report
StorageErrors ==
    { "Failed to validate vendor name", "Failed to create visit", "Failed to save event" }

\* C18: a check-in answered with a generic storage failure leaves no visit row of its
\* own behind, so that the vendor name is free for the caller's retry
C18_FailedCheckInCanBeRetried ==
    [][\A r \in Reqs :
          ( /\ req[r].route = "check-in"
            /\ InFlight(r)
            /\ req'[r].pc = "done"
            /\ req'[r].resp.error \in StorageErrors )
          => \A v \in visits' : v.id # req[r].visitId]_vars

\* the rows of a visit in a table of events
RowsOf(events, visitId) == { i \in DOMAIN events : events[i].visit_id = visitId }

\* a visit with both events
Closed(visitId) ==
    EventsOf(visitId, "CHECK_IN") # {} /\ EventsOf(visitId, "CHECK_OUT") # {}

\* a step of a check-out request at handler r
CheckOutStep(r) ==
    \/ Arrives(r) /\ req'[r].route = "check-out"
    \/ InFlight(r) /\ req[r].route = "check-out" /\ req'[r] # req[r]

\* C20: every step keeps the rows of visit_events and of visits as they are and appends
\* at most one event; a step of a check-out leaves visits alone and appends nothing
\* but one CHECK_OUT row under the visit id it was sent to; the rows of a visit that
\* has both events never change again
C20_EventsImmutable ==
    [][/\ Len(visit_events') \in { Len(visit_events), Len(visit_events) + 1 }
       /\ SubSeq(visit_events', 1, Len(visit_events)) = visit_events
       /\ visits \subseteq visits'
       /\ \A r \in Reqs :
             CheckOutStep(r)
             => /\ visits' = visits
                /\ visit_events' # visit_events
                   => LET e == visit_events'[Len(visit_events')]
                      IN /\ e.event_type = "CHECK_OUT"
                         /\ e.visit_id = req[r].visitId
                         /\ \E v \in visits : v.id = e.visit_id
       /\ \A id \in VisitIds :
             Closed(id)
             => /\ RowsOf(visit_events', id) = RowsOf(visit_events, id)
                /\ \A v \in visits' : v.id = id => v \in visits]_vars

\* both challenges are spent, a visit is closed, and a later event for it was refused
C20_Witness ==
    /\ \E id \in VisitIds : Closed(id) /\ Cardinality(RowsOf(visit_events, id)) = 2
    /\ \A c \in DOMAIN server_challenges : server_challenges[c].used_at # NULL
    /\ Len(server_challenges) = MaxChallenges
    /\ \E r \in Reqs : req[r].route = "check-out" /\ req[r].resp.error = "Failed to save event"

\* handler r has passed every check of the route and is about to persist its event
Accepted(r, route, visitId) ==
    req[r].pc = "insert_event" /\ req[r].route = route /\ req[r].visitId = visitId

\* the visit has its CHECK_IN event and no CHECK_OUT event
Open(visitId) ==
    /\ \E v \in visits : v.id = visitId
    /\ EventsOf(visitId, "CHECK_IN") # {}

C21_InvalidBodyTouchesNothing ==
    [][\A r \in Reqs :
          /\ (req[r].pc # "done" /\ req'[r].pc = "done" /\ req'[r].resp.error \in PayloadErrors)
             => /\ Arrives(r)
                /\ req'[r].resp.status = 400
                /\ UNCHANGED <<server_challenges, visits, visit_events>>
          /\ req'[r].pc \notin {"idle", "done", "crashed"}
             => /\ req'[r].body.eventType =
                      (IF req'[r].route = "check-in" THEN "CHECK_IN" ELSE "CHECK_OUT")
                /\ req'[r].body.vendorName # <<>>
                /\ req'[r].body.latitude \in -90..90
                /\ req'[r].body.longitude \in -180..180
                /\ req'[r].body.accuracyMeters \in 0..100000
                /\ req'[r].body.photoSha256 # NotADigest
                /\ req'[r].body.challengeId # NotAUuid
    ]_vars

\* a body was refused as invalid while a visit existed and an issued challenge was unused
C21_Witness ==
    /\ \E r \in Reqs : req[r].pc = "done" /\ req[r].resp.error = "Invalid payload"
    /\ visits # {}
    /\ \E c \in DOMAIN server_challenges : server_challenges[c].used_at = NULL

\* the step in which handler r, back from verifyChallenge, checks the signature
ChecksSignature(r) == req[r].pc = "verify_update" /\ req'[r] # req[r]

\* handler r after the signature check of the submission with digest d, public key k
\* and signing g
Checked(r, d, k, g) ==
    insertEventVerify([req[r] EXCEPT
        !.consumed = Observe(req[r].body.challengeId, req[r].body.challengeNonce),
        !.body = Submitted(req[r].body, d, k, g)])

\* C22: a submission whose signature was made over its own eight fields, by the device
\* whose public key it presents, passes the signature check; one whose signature was
\* made with any one field different, or by another device, is answered 400 'Invalid
\* device signature'; the step persists no event
C22_SignatureBindsFieldsAndKey ==
    [][\A r \in Reqs :
          ChecksSignature(r) =>
             /\ visit_events' = visit_events
             /\ \A d \in Digests, k \in SubmittedKeys, g \in Signings :
                   req'[r] = Checked(r, d, k, g)
                   => /\ g = "exact"
                         => /\ req'[r].pc = "insert_event"
                            /\ req'[r].body.deviceSignature.key = k
                            /\ req'[r].body.deviceSignature.msg =
                                  buildSigningPayload(req'[r].body)
                      /\ g \in SignedFields \cup {"otherKey"}
                         => /\ req'[r].pc = "done"
                            /\ req'[r].resp.status = 400
                            /\ req'[r].resp.error = "Invalid device signature"
    ]_vars

\* one submission has passed the signature check while another was answered with the
\* signature error
C22_Witness ==
    \E r, q \in Reqs :
        /\ req[r].pc = "insert_event"
        /\ req[q].pc = "done" /\ req[q].resp.error = "Invalid device signature"

\* the fields of a body that buildSigningPayload does not read
UnsignedFields == (DOMAIN NoBody) \ SignedFields

\* a handler holds the fields of the body that verifyChallenge and the signature
\* check read
HoldsBody(r) == req[r].pc \in {"verify_update", "insert_event"}

\* C23: the signing payload is the eight fields, nonce, event type, vendor name,
\* latitude, longitude, accuracy, capture time and digest, in this order with '|'
\* between them; a body that differs in another field only has the same payload; a
\* change of any one of the eight fields changes the payload
C23_PayloadIsTheEightFields ==
    \A r \in Reqs :
        HoldsBody(r) =>
           LET b == req[r].body
           IN /\ buildSigningPayload(b) =
                    b.challengeNonce \o <<"|", b.eventType, "|">> \o b.vendorName
                      \o <<"|", ToString(b.latitude), "|", ToString(b.longitude), "|",
                           ToString(b.accuracyMeters), "|", b.capturedAt, "|">>
                      \o b.photoSha256
              /\ \A f \in UnsignedFields :
                    buildSigningPayload([b EXCEPT ![f] = NoBody[f]]) = buildSigningPayload(b)
              /\ \A f \in SignedFields :
                    buildSigningPayload(SignedBy(b, f)) # buildSigningPayload(b)

\* a handler holds a whole body, every field set
C23_Witness ==
    \E r \in Reqs :
        /\ req[r].pc = "insert_event"
        /\ \A f \in DOMAIN NoBody : req[r].body[f] # NoBody[f]

\* C24: a public key or a signature that does not parse makes the signature check
\* fail like any other: the request is answered 400 'Invalid device signature', the
\* handler does not crash
C24_MalformedMaterialIsRejected ==
    [][\A r \in Reqs :
          ChecksSignature(r) =>
             \A d \in Digests, k \in SubmittedKeys, g \in {"badKey", "malformed"} :
                /\ Submitted(req[r].body, d, k, g).devicePublicKey \notin Keys
                      \/ Submitted(req[r].body, d, k, g).deviceSignature = Malformed
                /\ req'[r] = Checked(r, d, k, g)
                   => /\ req'[r].pc = "done"
                      /\ req'[r].resp.status = 400
                      /\ req'[r].resp.error = "Invalid device signature"
    ]_vars

\* a request was answered with the signature error and its challenge is used, while
\* no event is persisted
C24_Witness ==
    /\ \E r \in Reqs : req[r].pc = "done" /\ req[r].resp.error = "Invalid device signature"
    /\ \E c \in DOMAIN server_challenges : server_challenges[c].used_at # NULL
    /\ visit_events = <<>>

\* the vendor names a user may have typed for the body b: the name sent is the name
\* typed, trimmed
TypedNames(b) == { v \in { b.vendorName, b.vendorName \o <<" ">>, <<" ">> \o b.vendorName } :
                     Trim(v) = b.vendorName }

\* C25: the payload the web client signed is the payload the server rebuilds from the
\* body the client sent, whatever vendor name was typed
C25_ClientAndServerPayloadAgree ==
    \A r \in Reqs :
        req[r].pc = "verify_update" =>
           \A d \in Digests, typed \in TypedNames(req[r].body) :
              LET b == [req[r].body EXCEPT !.photoSha256 = d]
              IN clientPayload(b.challengeNonce, b.eventType, typed,
                               [lat |-> b.latitude, lng |-> b.longitude,
                                accuracy |-> b.accuracyMeters],
                               b.capturedAt, b.photoSha256)
                 = buildSigningPayload(b)

\* C26: a check-in that arrives while no other request is in flight and passes the
\* duplicate-name lookup has a vendor name that, as INSERT INTO visits will store it,
\* no checked-in visit carries: the lookup turns every colliding name away
C26_PreCheckAgreesWithIndex ==
    [][\A r \in Reqs :
          ( /\ Arrives(r)
            /\ \A q \in Reqs \ {r} : ~InFlight(q)
            /\ req'[r].pc = "insert_visit" )
          => \A v \in CheckedIn :
                Lower(v.vendor_name) # Lower(Trim(req'[r].body.vendorName))
    ]_vars

\* C27: a verifyChallenge call that returns a reason leaves every challenge row as it
\* was; a challenge row changes only in its used_at, and only in the step of a handler
\* that presented its id and its nonce and read it unused and unexpired
C27_RejectedConsumeChangesNothing ==
    [][/\ \A r \in Reqs :
             (Reads(r) /\ req'[r].pc = "done")
             => /\ req'[r].resp.error \in ChallengeReasons
                /\ server_challenges' = server_challenges
       /\ \A c \in DOMAIN server_challenges :
             server_challenges'[c] # server_challenges[c]
             => /\ server_challenges'[c] =
                      [server_challenges[c] EXCEPT !.used_at = server_challenges'[c].used_at]
                /\ \E r \in Reqs :
                      /\ ChecksSignature(r)
                      /\ req[r].body.challengeId = c
                      /\ req[r].seen = Fresh
    ]_vars

\* a request was turned away for its nonce while both issued challenges are unused
C27_Witness ==
    /\ \E r \in Reqs : req[r].pc = "done" /\ req[r].resp.error = "Challenge nonce mismatch"
    /\ Len(server_challenges) = MaxChallenges
    /\ \A c \in DOMAIN server_challenges : server_challenges[c].used_at = NULL

ConflictErrors == { "Vendor name already exists", "Visit not found", "Vendor mismatch" }

\* C28: a request answered with a state conflict (duplicate vendor, unknown visit, vendor
\* mismatch) is answered in the step of its arrival, which leaves challenges, visits and
\* events as they were; a check-out that goes on to verifyChallenge is for an existing
\* visit whose vendor name matches
C28_ConflictChangesNothing ==
    [][\A r \in Reqs :
          /\ (req[r].pc # "done" /\ req'[r].pc = "done" /\ req'[r].resp.error \in ConflictErrors)
             => /\ Arrives(r)
                /\ UNCHANGED <<server_challenges, visits, visit_events>>
          /\ (Arrives(r) /\ req'[r].route = "check-out" /\ req'[r].pc = "verify_select")
             => \E v \in visits :
                   /\ v.id = req'[r].visitId
                   /\ Lower(Trim(v.vendor_name)) = Lower(Trim(req'[r].body.vendorName))
    ]_vars

\* a check-out was turned away for its vendor name while a visit has its check-in and a
\* challenge is unused
C28_Witness ==
    /\ \E r \in Reqs : req[r].pc = "done" /\ req[r].resp.error = "Vendor mismatch"
    /\ CheckedIn # {}
    /\ \E c \in DOMAIN server_challenges : server_challenges[c].used_at = NULL

\* C29: every persisted event references a visit row that exists and a challenge row
\* that exists and is marked used
C29_EventsReferenceVisitAndUsedChallenge ==
    \A i \in DOMAIN visit_events :
        /\ \E v \in visits : v.id = visit_events[i].visit_id
        /\ visit_events[i].server_challenge_id \in DOMAIN server_challenges
        /\ server_challenges[visit_events[i].server_challenge_id].used_at # NULL

\* two events are persisted under two challenges
C29_Witness ==
    /\ Len(visit_events) >= 2
    /\ visit_events[1].server_challenge_id # visit_events[2].server_challenge_id

\* C30: the file under the photo reference of every persisted event has the digest the
\* event records
C30_PhotoMatchesDigest ==
    \A i \in DOMAIN visit_events :
        /\ photoExists(visit_events[i].photo_url)
        /\ sha256Hex(photos[Tail(visit_events[i].photo_url)]) = visit_events[i].photo_sha256

\* the web client is ready to check in but for the photo: a vendor name is typed, a
\* location is set and the device key is there
ReadyButForPhoto ==
    /\ Trim(client.vendorName) # <<>>
    /\ client.pos # <<>>
    /\ client.keyPair # "none"

\* C31: the upload of processPhoto is accepted by POST /api/photos: a client that is
\* ready but for the photo has its photo reference after the upload, and with it passes
\* the guards of checkIn
C31_UploadReachesCheckIn ==
    [][\A f \in PickedFiles :
          (ReadyButForPhoto /\ processPhoto(f))
          => /\ client'.photoUrl # <<>>
             /\ photoExists(client.photoUrl)'
    ]_vars

\* the web client never holds a photo reference, whatever it uploads
PhotoUrlStaysNull == client.photoUrl = <<>> /\ ~client.loading


=============================================================================
